---- MODULE Spec2Model ----
(***************************************************************************)
(* Hotel-Management back end: the Express route handlers that write the    *)
(* Inventory, InventoryTransactions, BillMaintenanceLedger and Employee    *)
(* tables, modelled statement by statement.                                 *)
(*                                                                         *)
(* A request is a process.  Its arrival runs the route's middleware chain  *)
(* (the express-validator rules, then the router's handleValidationErrors) *)
(* and the synchronous head of the handler; every later step is one        *)
(* awaited database call followed by the JavaScript that runs until the    *)
(* next await.  Steps of different requests interleave freely.              *)
(*                                                                         *)
(* The database is the committed tables plus, per open transaction, the    *)
(* row locks it holds and the writes it has made but not yet committed     *)
(* (InnoDB: an UPDATE or a SELECT ... FOR UPDATE locks the rows it touches *)
(* until commit or rollback, and works on the latest committed version; a  *)
(* plain SELECT reads committed data without locking).                      *)
(***************************************************************************)
EXTENDS Integers, Sequences, FiniteSets, TLC

VARIABLES
    Inventory,              \* InventoryID -> [HotelID, Quantity]   (committed rows)
    InventoryTransactions,  \* TransactionID -> row                 (committed rows)
    nextTransactionID,      \* AUTO_INCREMENT of InventoryTransactions
    BillMaintenanceLedger,  \* sequence of committed rows
    Employee,               \* EmpID -> row                         (committed rows)
    nextEmpID,              \* AUTO_INCREMENT of Employee
    available_rooms,        \* RoomID -> [HotelID]                 (committed rows)
    Booking,                \* sequence of committed rows [RoomID, CheckOutDate]
    Hotel,                  \* set of HotelIDs with a row in Hotel  (committed rows)
    received,               \* history: TransactionID -> times its Quantity was added to Inventory
    req                     \* request -> its state (route, arguments, position, locals, response)

vars == <<Inventory, InventoryTransactions, nextTransactionID, BillMaintenanceLedger,
          Employee, nextEmpID, available_rooms, Booking, Hotel, received, req>>

inventoryVars == <<Inventory, InventoryTransactions, nextTransactionID, received>>
employeeVars == <<Employee, nextEmpID>>
adminVars == <<available_rooms, Booking, Hotel>>

\* Number of requests of one run; all of them may be in flight together.
MaxReq == 3

Reqs == 1..MaxReq
\* The order row present at the start plus at most one insert per request.
TransactionIDs == 1..(MaxReq + 1)

----------------------------------------------------------------------------
(* Request state *)

\* router, op: the route.  user: req.user.hotelId.  id: the row the request names.
\* b: req.body and req.params.  valid: whether they satisfy the route's rules.
\* failed: whether an awaited database call of the request has rejected.
\* resp: the HTTP status sent (0: none).  conn: the calls made on the pooled
\* connection, in order.  locks, writes: the open transaction's row locks and
\* uncommitted writes.  loc: the handler's local variables.
Idle ==
    [router |-> "", op |-> "", pc |-> "idle", user |-> 0, id |-> 0, b |-> <<>>,
     valid |-> TRUE, failed |-> FALSE, resp |-> 0, conn |-> <<>>, locks |-> {},
     writes |-> <<>>, loc |-> <<>>]

Finished(r) == r.pc \in {"done", "hung"}
InFlight(r) == r.pc \notin {"idle", "done", "hung"}

\* The request as it reaches its route.
Arrived(router, op, user, id, b, valid) ==
    [Idle EXCEPT !.router = router, !.op = op, !.user = user, !.id = id, !.b = b,
                 !.valid = valid]

\* res.status(code).json(...) or res.send(...): the handler is over, its locals are dead.
Respond(r, code) ==
    [r EXCEPT !.pc = "done", !.resp = code, !.b = <<>>, !.loc = <<>>]

\* The handler returned or threw without ever answering.
Hang(r) ==
    [r EXCEPT !.pc = "hung", !.resp = 0, !.b = <<>>, !.loc = <<>>]

\* Requests arrive in the order of their numbers.
CanArrive(p) ==
    /\ req[p].pc = "idle"
    /\ \A q \in Reqs : q < p => req[q].pc # "idle"

----------------------------------------------------------------------------
(* Pooled connection and transaction *)

getConnection(r) == [r EXCEPT !.conn = Append(@, "get")]
beginTransaction(r) == [r EXCEPT !.conn = Append(@, "begin")]
\* rollback and commit end the transaction: its locks go; rollback drops its writes,
\* commit has applied them (CommitInventory, CommitEmployee).
rollback(r) == [r EXCEPT !.conn = Append(@, "rollback"), !.locks = {}, !.writes = <<>>]
commit(r) == [r EXCEPT !.conn = Append(@, "commit"), !.locks = {}, !.writes = <<>>]
release(r) == [r EXCEPT !.conn = Append(@, "release")]

LockedByOther(p, l) == \E q \in Reqs \ {p} : l \in req[q].locks

NoRow == [Status |-> "", ReceiveDate |-> 0]
WriteInventory(i, d, s) ==
    [tbl |-> "Inventory", kind |-> "update", id |-> i, delta |-> d, src |-> s, row |-> NoRow]
WriteTransaction(k, t, row) ==
    [tbl |-> "InventoryTransactions", kind |-> k, id |-> t, delta |-> 0, src |-> 0, row |-> row]
WriteEmployee(k, e, row) ==
    [tbl |-> "Employee", kind |-> k, id |-> e, delta |-> 0, src |-> 0, row |-> row]

\* The writes of a transaction, applied to the committed tables at commit.
RECURSIVE ApplyInventory(_, _)
ApplyInventory(w, inv) ==
    IF w = <<>> THEN inv
    ELSE LET h == Head(w)
             next == IF h.tbl = "Inventory"
                     THEN [inv EXCEPT ![h.id].Quantity = @ + h.delta]
                     ELSE inv
         IN ApplyInventory(Tail(w), next)

RECURSIVE ApplyTransactions(_, _)
ApplyTransactions(w, tx) ==
    IF w = <<>> THEN tx
    ELSE LET h == Head(w)
             next == IF h.tbl = "InventoryTransactions" /\ h.kind = "insert"
                     THEN tx @@ (h.id :> h.row)
                     ELSE IF h.tbl = "InventoryTransactions" /\ h.kind = "update"
                     THEN [tx EXCEPT ![h.id].Status = h.row.Status,
                                     ![h.id].ReceiveDate = h.row.ReceiveDate]
                     ELSE tx
         IN ApplyTransactions(Tail(w), next)

\* History: an Inventory write made for order src counts as one addition of it.
RECURSIVE ApplyReceived(_, _)
ApplyReceived(w, rc) ==
    IF w = <<>> THEN rc
    ELSE LET h == Head(w)
             next == IF h.tbl = "Inventory" /\ h.src # 0
                     THEN [rc EXCEPT ![h.src] = @ + 1]
                     ELSE rc
         IN ApplyReceived(Tail(w), next)

RECURSIVE ApplyEmployee(_, _)
ApplyEmployee(w, emp) ==
    IF w = <<>> THEN emp
    ELSE LET h == Head(w)
             next == IF h.tbl = "Employee" /\ h.kind = "insert"
                     THEN emp @@ (h.id :> h.row)
                     ELSE IF h.tbl = "Employee" /\ h.kind = "update"
                     THEN [emp EXCEPT ![h.id] = h.row]
                     ELSE emp
         IN ApplyEmployee(Tail(w), next)

\* connection.commit() of a handler that writes the inventory tables.
CommitInventory(r) ==
    /\ Inventory' = ApplyInventory(r.writes, Inventory)
    /\ InventoryTransactions' = ApplyTransactions(r.writes, InventoryTransactions)
    /\ received' = ApplyReceived(r.writes, received)

\* connection.commit() of a handler that writes Employee.
CommitEmployee(r) == Employee' = ApplyEmployee(r.writes, Employee)

----------------------------------------------------------------------------
(* Middleware: express-validator rules and handleValidationErrors *)

\* /api/inventory, /api/employees, /api/expenses, /api/manager/employees:
\* 400 when the rules recorded an error, otherwise next().
handleValidationErrors(errors) == IF errors THEN "400" ELSE "next"

\* /api/manager/inventory and /api/manager/financials: the helper's body is a
\* comment.  It neither answers nor calls next(), so the chain stops there.
handleValidationErrorsStub(errors) == "hang"

StubRouters == {"managerInventory", "managerFinancials"}
\* The callback-style routes of employeeRoute.js have no middleware at all.
BareRouters == {"legacy"}

Middleware(router, errors) ==
    IF router \in BareRouters THEN "next"
    ELSE IF router \in StubRouters THEN handleValidationErrorsStub(errors)
    ELSE handleValidationErrors(errors)

\* The request after its middleware chain: answered 400, stopped, or in the handler.
Enter(r, handler) ==
    LET mw == Middleware(r.router, ~r.valid)
    IN IF mw = "400" THEN Respond(r, 400)
       ELSE IF mw = "hang" THEN Hang(r)
       ELSE handler

\* const connection = await db.getConnection(); await connection.beginTransaction();
\* then the first statement is issued.
EnterTransaction(r) ==
    Enter(r, [beginTransaction(getConnection(r)) EXCEPT !.pc = "q1"])

\* isInt({ gt: 0 }) / isFloat({ gt: 0 })
IsPositive(x) == x > 0

AdjustmentTypes == {"Stock Count", "Usage", "Damage", "Return", "Other"}

receiveOrderValidation(b) == IsPositive(b.transactionID)

orderItemValidation(router, b) ==
    /\ router = "inventory" => IsPositive(b.hotelID)
    /\ IsPositive(b.inventoryID)
    /\ IsPositive(b.quantity)
    /\ b.unitPrice >= 0

adjustValidation(router, b) ==
    /\ IsPositive(b.inventoryID)
    /\ b.adjustmentType \in AdjustmentTypes
    /\ router = "inventory" => IsPositive(b.hotelID)

addMaintenanceValidation(router, b) ==
    /\ router = "expenses" => IsPositive(b.hotelId)
    /\ IsPositive(b.amount)

\* trim(): the blank name is the only name of the model with surrounding blanks.
trim(s) == IF s = " " THEN "" ELSE s

addItemValidation(router, b) ==
    /\ router = "inventory" => IsPositive(b.hotelID)
    /\ trim(b.itemName) # ""

\* itemName, category, unit and lowStockThreshold are optional; only the length of a
\* name is checked, and every name of the model is short.
updateItemValidation(b) == IsPositive(b.inventoryID)

\* req.user.hotelId on the manager routers, the body's hotel id elsewhere.
HotelOf(r) == IF r.user # 0 THEN r.user
              ELSE IF r.op = "maintenance-ledger" THEN r.b.hotelId ELSE r.b.hotelID

----------------------------------------------------------------------------
(* Request inputs *)

\* A request: the router it is sent to, req.user.hotelId (set by authenticateToken on
\* the manager routers, absent elsewhere) and the parameters and body.
In(router, user, b) == [router |-> router, user |-> user, b |-> b]

ReceiveOrderInputs ==
    {In("inventory", 0, [transactionID |-> t]) : t \in 0..2}
    \cup {In("managerInventory", 1, [transactionID |-> t]) : t \in 0..1}

OrderItemInputs ==
    {In("inventory", 0, b) : b \in
        {[hotelID |-> 1, inventoryID |-> 1, quantity |-> 1, unitPrice |-> 5],
         [hotelID |-> 2, inventoryID |-> 1, quantity |-> 1, unitPrice |-> 5],
         [hotelID |-> 1, inventoryID |-> 1, quantity |-> 0, unitPrice |-> 5]}}
    \cup {In("managerInventory", 2, [inventoryID |-> 1, quantity |-> 1, unitPrice |-> 5])}

AdjustInputs ==
    {In("inventory", 0, b) : b \in
        {[hotelID |-> 1, inventoryID |-> 1, quantityChange |-> -1, adjustmentType |-> "Usage"],
         [hotelID |-> 1, inventoryID |-> 3, quantityChange |-> -1, adjustmentType |-> "Usage"],
         [hotelID |-> 1, inventoryID |-> 1, quantityChange |-> 3, adjustmentType |-> "Order"]}}
    \cup {In("managerInventory", 2,
             [inventoryID |-> 3, quantityChange |-> 3, adjustmentType |-> "Return"])}

MaintenanceInputs ==
    {In("expenses", 0, b) : b \in {[hotelId |-> 1, amount |-> 5], [hotelId |-> 1, amount |-> 0]}}
    \cup {In("managerFinancials", 1, [amount |-> 5])}

ReceiveOrderArrivals ==
    {Arrived(in.router, "receive-order", in.user, in.b.transactionID, in.b,
             receiveOrderValidation(in.b)) : in \in ReceiveOrderInputs}

OrderItemArrivals ==
    {Arrived(in.router, "order-item", in.user, in.b.inventoryID, in.b,
             orderItemValidation(in.router, in.b)) : in \in OrderItemInputs}

AdjustArrivals ==
    {Arrived(in.router, "adjust", in.user, in.b.inventoryID, in.b,
             adjustValidation(in.router, in.b)) : in \in AdjustInputs}

MaintenanceArrivals ==
    {Arrived(in.router, "maintenance-ledger", in.user, 0, in.b,
             addMaintenanceValidation(in.router, in.b)) : in \in MaintenanceInputs}

\* A body field the request does not carry (JavaScript undefined).
Undefined == "undefined"

AddItemInputs ==
    {In("inventory", 0, b) : b \in
        {[hotelID |-> 1, itemName |-> "SOAP"],
         [hotelID |-> 1, itemName |-> "Mop"],
         [hotelID |-> 1, itemName |-> "mop"],
         [hotelID |-> 1, itemName |-> " "]}}
    \cup {In("managerInventory", 2, [itemName |-> "Mop"])}

UpdateItemInputs ==
    {In("inventory", 0, b) : b \in
        {[inventoryID |-> 1, itemName |-> "Mop", category |-> Undefined],
         [inventoryID |-> 3, itemName |-> "soap", category |-> Undefined],
         [inventoryID |-> 3, itemName |-> Undefined, category |-> "Cleaning"],
         [inventoryID |-> 1, itemName |-> Undefined, category |-> Undefined],
         [inventoryID |-> 0, itemName |-> "Mop", category |-> Undefined]}}
    \cup {In("managerInventory", 2,
             [inventoryID |-> 2, itemName |-> "Mop", category |-> Undefined])}

AddItemArrivals ==
    {Arrived(in.router, "add-item", in.user, 0, in.b,
             addItemValidation(in.router, in.b)) : in \in AddItemInputs}

UpdateItemArrivals ==
    {Arrived(in.router, "update-item", in.user, in.b.inventoryID, in.b,
             updateItemValidation(in.b)) : in \in UpdateItemInputs}

----------------------------------------------------------------------------
(* POST /receive-order *)

ReceiveOrderRequest(p) ==
    /\ CanArrive(p)
    /\ \E r \in ReceiveOrderArrivals : req' = [req EXCEPT ![p] = EnterTransaction(r)]
    /\ UNCHANGED <<adminVars, inventoryVars, BillMaintenanceLedger, employeeVars>>

\* The SELECT of receive-order without its "Status = 'Pending'" condition.
ReceiveOrderSelectAnyStatus(p) ==
    LET r == req[p]
        t == r.id
        exists == t \in DOMAIN InventoryTransactions
        row == InventoryTransactions[t]
        match == /\ exists
                 /\ r.router = "managerInventory" => row.HotelID = r.user
                 /\ row.TransactionType = "Order"
    IN /\ r.op = "receive-order" /\ r.pc = "q1"
       /\ exists => ~LockedByOther(p, <<"InventoryTransactions", t>>)
       /\ req' = [req EXCEPT ![p] =
                    IF ~match
                    THEN Respond(release(rollback(r)), 404)
                    ELSE [r EXCEPT !.pc = "q2",
                                   !.locks = @ \cup {<<"InventoryTransactions", t>>},
                                   !.loc = [InventoryID |-> row.InventoryID,
                                            Quantity |-> row.Quantity]]]
       /\ UNCHANGED <<adminVars, inventoryVars, BillMaintenanceLedger, employeeVars>>

\* 1. SELECT ... FROM InventoryTransactions WHERE TransactionID = ? [AND HotelID = ?]
\*    AND Status = 'Pending' AND TransactionType = 'Order' FOR UPDATE
ReceiveOrderSelect(p) ==
    LET r == req[p]
        t == r.id
        exists == t \in DOMAIN InventoryTransactions
        row == InventoryTransactions[t]
        match == /\ exists
                 /\ r.router = "managerInventory" => row.HotelID = r.user
                 /\ row.Status = "Pending"
                 /\ row.TransactionType = "Order"
    IN /\ r.op = "receive-order" /\ r.pc = "q1"
       /\ exists => ~LockedByOther(p, <<"InventoryTransactions", t>>)
       /\ req' = [req EXCEPT ![p] =
                    IF ~match
                    THEN Respond(release(rollback(r)), 404)
                    ELSE [r EXCEPT !.pc = "q2",
                                   !.locks = @ \cup {<<"InventoryTransactions", t>>},
                                   !.loc = [InventoryID |-> row.InventoryID,
                                            Quantity |-> row.Quantity]]]
       /\ UNCHANGED <<adminVars, inventoryVars, BillMaintenanceLedger, employeeVars>>

\* The UPDATE of Inventory issued on the pool (db.query) instead of the transaction's
\* connection: it commits at once, whatever becomes of the transaction.
ReceiveOrderUpdateInventoryOnPool(p) ==
    LET r == req[p]
        i == r.loc.InventoryID
        exists == i \in DOMAIN Inventory
        hit == /\ exists
               /\ r.router = "managerInventory" => Inventory[i].HotelID = r.user
    IN /\ r.op = "receive-order" /\ r.pc = "q2"
       /\ exists => ~LockedByOther(p, <<"Inventory", i>>)
       /\ Inventory' = IF hit THEN [Inventory EXCEPT ![i].Quantity = @ + r.loc.Quantity]
                       ELSE Inventory
       /\ received' = IF hit THEN [received EXCEPT ![r.id] = @ + 1] ELSE received
       /\ req' = [req EXCEPT ![p] =
                    IF ~hit /\ r.router = "inventory"
                    THEN Respond(release(rollback(r)), 404)
                    ELSE [r EXCEPT !.pc = "q3"]]
       /\ UNCHANGED <<adminVars, InventoryTransactions, nextTransactionID, BillMaintenanceLedger,
                      employeeVars>>

\* 2. UPDATE Inventory SET Quantity = Quantity + ? WHERE InventoryID = ? [AND HotelID = ?]
\*    /api/inventory answers 404 when no row was affected; /api/manager/inventory
\*    has an empty block there and goes on.
ReceiveOrderUpdateInventory(p) ==
    LET r == req[p]
        i == r.loc.InventoryID
        exists == i \in DOMAIN Inventory
        hit == /\ exists
               /\ r.router = "managerInventory" => Inventory[i].HotelID = r.user
    IN /\ r.op = "receive-order" /\ r.pc = "q2"
       /\ exists => ~LockedByOther(p, <<"Inventory", i>>)
       /\ req' = [req EXCEPT ![p] =
                    IF ~hit /\ r.router = "inventory"
                    THEN Respond(release(rollback(r)), 404)
                    ELSE [r EXCEPT !.pc = "q3",
                                   !.locks = IF exists THEN @ \cup {<<"Inventory", i>>} ELSE @,
                                   !.writes = IF hit
                                              THEN Append(@, WriteInventory(i, r.loc.Quantity, r.id))
                                              ELSE @]]
       /\ UNCHANGED <<adminVars, inventoryVars, BillMaintenanceLedger, employeeVars>>

\* 3. UPDATE InventoryTransactions SET Status = 'Completed', ReceiveDate = NOW()
\*    WHERE TransactionID = ?          (NOW() is told apart by the request it runs in)
ReceiveOrderUpdateTransaction(p) ==
    LET r == req[p]
    IN /\ r.op = "receive-order" /\ r.pc = "q3"
       /\ req' = [req EXCEPT ![p] =
                    [r EXCEPT !.pc = "commit",
                              !.writes = Append(@, WriteTransaction("update", r.id,
                                            [Status |-> "Completed", ReceiveDate |-> p]))]]
       /\ UNCHANGED <<adminVars, inventoryVars, BillMaintenanceLedger, employeeVars>>

ReceiveOrderCommit(p) ==
    LET r == req[p]
    IN /\ r.op = "receive-order" /\ r.pc = "commit"
       /\ CommitInventory(r)
       /\ req' = [req EXCEPT ![p] = Respond(release(commit(r)), 200)]
       /\ UNCHANGED <<adminVars, nextTransactionID, BillMaintenanceLedger, employeeVars>>

----------------------------------------------------------------------------
(* POST /order-item *)

OrderItemRequest(p) ==
    /\ CanArrive(p)
    /\ \E r \in OrderItemArrivals :
         req' = [req EXCEPT ![p] = Enter(r, [r EXCEPT !.pc = "q1"])]
    /\ UNCHANGED <<adminVars, inventoryVars, BillMaintenanceLedger, employeeVars>>

\* SELECT 1 FROM Inventory WHERE InventoryID = ? AND HotelID = ?
OrderItemCheck(p) ==
    LET r == req[p]
        itemExists == r.id \in DOMAIN Inventory /\ Inventory[r.id].HotelID = HotelOf(r)
    IN /\ r.op = "order-item" /\ r.pc = "q1"
       /\ req' = [req EXCEPT ![p] =
                    IF ~itemExists THEN Respond(r, 404) ELSE [r EXCEPT !.pc = "q2"]]
       /\ UNCHANGED <<adminVars, inventoryVars, BillMaintenanceLedger, employeeVars>>

OrderRow(r) ==
    [InventoryID |-> r.b.inventoryID, HotelID |-> HotelOf(r), TransactionType |-> "Order",
     Quantity |-> r.b.quantity, Status |-> "Pending", UnitPrice |-> r.b.unitPrice,
     ReceiveDate |-> 0]

\* INSERT INTO InventoryTransactions (...) VALUES (?, ?, 'Order', ?, 'Pending', ?, NOW())
OrderItemInsert(p) ==
    LET r == req[p]
    IN /\ r.op = "order-item" /\ r.pc = "q2"
       /\ InventoryTransactions' = InventoryTransactions @@ (nextTransactionID :> OrderRow(r))
       /\ nextTransactionID' = nextTransactionID + 1
       /\ req' = [req EXCEPT ![p] = Respond(r, 200)]
       /\ UNCHANGED <<adminVars, Inventory, received, BillMaintenanceLedger, employeeVars>>

----------------------------------------------------------------------------
(* POST /add-item and PUT /item/:inventoryID *)

\* SQL LOWER() on the item names of the model.
LOWER(s) ==
    CASE s \in {"Soap", "SOAP", "soap"} -> "soap"
      [] s \in {"Mop", "MOP", "mop"} -> "mop"
      [] OTHER -> s

\* AUTO_INCREMENT of Inventory, whose rows are never deleted.
nextInventoryID == Cardinality(DOMAIN Inventory) + 1

\* Rows of hotel h, other than row `except`, whose name equals `name` up to case.
SameName(h, name, except) ==
    {i \in DOMAIN Inventory \ {except} :
        Inventory[i].HotelID = h /\ LOWER(Inventory[i].ItemName) = LOWER(name)}

AddItemRequest(p) ==
    /\ CanArrive(p)
    /\ \E r \in AddItemArrivals :
         req' = [req EXCEPT ![p] = Enter(r, [r EXCEPT !.pc = "q1"])]
    /\ UNCHANGED <<adminVars, inventoryVars, BillMaintenanceLedger, employeeVars>>

\* SELECT 1 FROM Inventory WHERE HotelID = ? AND LOWER(ItemName) = LOWER(?)
AddItemCheck(p) ==
    LET r == req[p]
        existing == SameName(HotelOf(r), r.b.itemName, 0)
    IN /\ r.op = "add-item" /\ r.pc = "q1"
       /\ req' = [req EXCEPT ![p] =
                    IF existing # {} THEN Respond(r, 409) ELSE [r EXCEPT !.pc = "q2"]]
       /\ UNCHANGED <<adminVars, inventoryVars, BillMaintenanceLedger, employeeVars>>

\* INSERT INTO Inventory (HotelID, ItemName, ..., Quantity, ...) VALUES (?, ?, ?, 0, ...).
\* The repository declares no unique index on (HotelID, ItemName); the catch block
\* answers 409 to ER_DUP_ENTRY in case the database has one, so an insert that would
\* duplicate a name either goes through or is rejected.
AddItemInsert(p) ==
    LET r == req[p]
        row == [HotelID |-> HotelOf(r), ItemName |-> r.b.itemName, Quantity |-> 0]
        duplicate == SameName(HotelOf(r), r.b.itemName, 0) # {}
    IN /\ r.op = "add-item" /\ r.pc = "q2"
       /\ \E ER_DUP_ENTRY \in (IF duplicate THEN BOOLEAN ELSE {FALSE}) :
            IF ER_DUP_ENTRY
            THEN /\ req' = [req EXCEPT ![p] = Respond([r EXCEPT !.failed = TRUE], 409)]
                 /\ UNCHANGED Inventory
            ELSE /\ Inventory' = Inventory @@ (nextInventoryID :> row)
                 /\ req' = [req EXCEPT ![p] = Respond(r, 201)]
       /\ UNCHANGED <<adminVars, InventoryTransactions, nextTransactionID, received,
                      BillMaintenanceLedger, employeeVars>>

\* fieldsToUpdate is empty: 400 before any statement.
UpdateItemRequest(p) ==
    /\ CanArrive(p)
    /\ \E r \in UpdateItemArrivals :
         LET noFields == r.b.itemName = Undefined /\ r.b.category = Undefined
             first == IF r.b.itemName # Undefined THEN "q1" ELSE "q2"
         IN req' = [req EXCEPT ![p] =
                      Enter(r, IF noFields THEN Respond(r, 400) ELSE [r EXCEPT !.pc = first])]
    /\ UNCHANGED <<adminVars, inventoryVars, BillMaintenanceLedger, employeeVars>>

\* /api/inventory:  SELECT 1 FROM Inventory WHERE LOWER(ItemName) = LOWER(?) AND
\*     InventoryID <> ? AND HotelID = (SELECT HotelID FROM Inventory WHERE InventoryID = ?)
\* /api/manager/inventory:  ... AND InventoryID <> ? AND HotelID = ?
UpdateItemCheck(p) ==
    LET r == req[p]
        existing ==
            IF r.router = "managerInventory" THEN SameName(r.user, r.b.itemName, r.id)
            ELSE IF r.id \in DOMAIN Inventory
                 THEN SameName(Inventory[r.id].HotelID, r.b.itemName, r.id)
                 ELSE {}
    IN /\ r.op = "update-item" /\ r.pc = "q1"
       /\ req' = [req EXCEPT ![p] =
                    IF existing # {} THEN Respond(r, 409) ELSE [r EXCEPT !.pc = "q2"]]
       /\ UNCHANGED <<adminVars, inventoryVars, BillMaintenanceLedger, employeeVars>>

\* /api/inventory:          UPDATE Inventory SET ... WHERE InventoryID = ?
\* /api/manager/inventory:  UPDATE Inventory SET ... WHERE InventoryID = ? AND HotelID = ?
\* Category, Unit and LowStockThreshold are not columns of the model.
UpdateItemRow(p) ==
    LET r == req[p]
        i == r.id
        hit == /\ i \in DOMAIN Inventory
               /\ r.router = "managerInventory" => Inventory[i].HotelID = r.user
        named == r.b.itemName # Undefined
        duplicate == hit /\ named /\ SameName(Inventory[i].HotelID, r.b.itemName, i) # {}
    IN /\ r.op = "update-item" /\ r.pc = "q2"
       /\ \E ER_DUP_ENTRY \in (IF duplicate THEN BOOLEAN ELSE {FALSE}) :
            IF ER_DUP_ENTRY
            THEN /\ req' = [req EXCEPT ![p] = Respond([r EXCEPT !.failed = TRUE], 409)]
                 /\ UNCHANGED Inventory
            ELSE /\ Inventory' = IF hit /\ named
                                 THEN [Inventory EXCEPT ![i].ItemName = r.b.itemName]
                                 ELSE Inventory
                 /\ req' = [req EXCEPT ![p] = Respond(r, IF hit THEN 200 ELSE 404)]
       /\ UNCHANGED <<adminVars, InventoryTransactions, nextTransactionID, received,
                      BillMaintenanceLedger, employeeVars>>

----------------------------------------------------------------------------
(* DELETE /api/rooms/:roomID *)

\* CURDATE(); dates are day numbers and no request outlives the day.
CURDATE == 1

roomIdParamValidation(b) == IsPositive(b.roomID)

DeleteRoomInputs == {In("rooms", 0, [roomID |-> k]) : k \in 0..3}

DeleteRoomArrivals ==
    {Arrived(in.router, "delete-room", in.user, in.b.roomID, in.b,
             roomIdParamValidation(in.b)) : in \in DeleteRoomInputs}

\* The foreign key of Booking.RoomID on available_rooms, ON DELETE RESTRICT: a room
\* some Booking row references cannot be deleted, and a Booking row cannot name a room
\* that has no row.
ReferencedByBooking(k) == \E n \in DOMAIN Booking : Booking[n].RoomID = k

\* The booking module records a stay in room k that ends on day d.
BookingInputs == {[RoomID |-> k, CheckOutDate |-> d] : k \in {1, 3}, d \in {CURDATE, CURDATE + 1}}

BookingInsert(p) ==
    /\ CanArrive(p)
    /\ \E row \in BookingInputs :
         LET r == Arrived("bookings", "book", 0, row.RoomID, row, TRUE)
         IN IF row.RoomID \in DOMAIN available_rooms
            THEN /\ Booking' = Append(Booking, row)
                 /\ req' = [req EXCEPT ![p] = Respond(r, 201)]
            ELSE /\ Booking' = Booking
                 /\ req' = [req EXCEPT ![p] = Respond([r EXCEPT !.failed = TRUE], 500)]
    /\ UNCHANGED <<available_rooms, Hotel, inventoryVars, BillMaintenanceLedger, employeeVars>>

DeleteRoomRequest(p) ==
    /\ CanArrive(p)
    /\ \E r \in DeleteRoomArrivals :
         req' = [req EXCEPT ![p] = Enter(r, [r EXCEPT !.pc = "q1"])]
    /\ UNCHANGED <<adminVars, inventoryVars, BillMaintenanceLedger, employeeVars>>

\* SELECT 1 FROM Booking WHERE RoomID = ? AND CheckOutDate >= CURDATE() LIMIT 1
checkBookingQuery(k) ==
    {n \in DOMAIN Booking : Booking[n].RoomID = k /\ Booking[n].CheckOutDate >= CURDATE}

DeleteRoomCheck(p) ==
    LET r == req[p]
        bookings == checkBookingQuery(r.id)
    IN /\ r.op = "delete-room" /\ r.pc = "q1"
       /\ req' = [req EXCEPT ![p] =
                    IF bookings # {} THEN Respond(r, 409) ELSE [r EXCEPT !.pc = "q2"]]
       /\ UNCHANGED <<adminVars, inventoryVars, BillMaintenanceLedger, employeeVars>>

\* The catch block answers 500 to the foreign key error.
DeleteRoomDeleteCatch500(p) ==
    LET r == req[p]
        k == r.id
    IN /\ r.op = "delete-room" /\ r.pc = "q2"
       /\ IF ReferencedByBooking(k)
          THEN /\ available_rooms' = available_rooms
               /\ req' = [req EXCEPT ![p] = Respond([r EXCEPT !.failed = TRUE], 500)]
          ELSE /\ available_rooms' = [j \in DOMAIN available_rooms \ {k} |-> available_rooms[j]]
               /\ req' = [req EXCEPT ![p] =
                            Respond(r, IF k \in DOMAIN available_rooms THEN 200 ELSE 404)]
       /\ UNCHANGED <<Booking, Hotel, inventoryVars, BillMaintenanceLedger, employeeVars>>

\* DELETE FROM available_rooms WHERE RoomID = ?
\* 404 when no row was affected; the catch block answers 409 to
\* ER_ROW_IS_REFERENCED and ER_ROW_IS_REFERENCED_2.
DeleteRoomDelete(p) ==
    LET r == req[p]
        k == r.id
    IN /\ r.op = "delete-room" /\ r.pc = "q2"
       /\ IF ReferencedByBooking(k)
          THEN /\ available_rooms' = available_rooms
               /\ req' = [req EXCEPT ![p] = Respond([r EXCEPT !.failed = TRUE], 409)]
          ELSE /\ available_rooms' = [j \in DOMAIN available_rooms \ {k} |-> available_rooms[j]]
               /\ req' = [req EXCEPT ![p] =
                            Respond(r, IF k \in DOMAIN available_rooms THEN 200 ELSE 404)]
       /\ UNCHANGED <<Booking, Hotel, inventoryVars, BillMaintenanceLedger, employeeVars>>

----------------------------------------------------------------------------
(* PATCH /adjust/:inventoryID *)

AdjustRequest(p) ==
    /\ CanArrive(p)
    /\ \E r \in AdjustArrivals : req' = [req EXCEPT ![p] = EnterTransaction(r)]
    /\ UNCHANGED <<adminVars, inventoryVars, BillMaintenanceLedger, employeeVars>>

\* /api/inventory:  UPDATE Inventory SET Quantity = Quantity + ? WHERE InventoryID = ?
\*                  (404 when no row was affected).
\* /api/manager/inventory:  SELECT Quantity FROM Inventory WHERE InventoryID = ? AND
\*                  HotelID = ? FOR UPDATE (404 when empty), then the same UPDATE on the
\*                  row it has just locked.
AdjustUpdateInventory(p) ==
    LET r == req[p]
        i == r.id
        exists == i \in DOMAIN Inventory
        found == /\ exists
                 /\ r.router = "managerInventory" => Inventory[i].HotelID = r.user
    IN /\ r.op = "adjust" /\ r.pc = "q1"
       /\ exists => ~LockedByOther(p, <<"Inventory", i>>)
       /\ req' = [req EXCEPT ![p] =
                    IF ~found
                    THEN Respond(release(rollback(r)), 404)
                    ELSE [r EXCEPT !.pc = "q2",
                                   !.locks = @ \cup {<<"Inventory", i>>},
                                   !.writes = Append(@, WriteInventory(i, r.b.quantityChange, 0))]]
       /\ UNCHANGED <<adminVars, inventoryVars, BillMaintenanceLedger, employeeVars>>

AdjustRow(r) ==
    [InventoryID |-> r.id, HotelID |-> HotelOf(r), TransactionType |-> r.b.adjustmentType,
     Quantity |-> r.b.quantityChange, Status |-> "Completed", UnitPrice |-> "NULL",
     ReceiveDate |-> 0]

\* INSERT INTO InventoryTransactions (...) VALUES (?, ?, ?, ?, 'Completed', ?, NOW())
AdjustLog(p) ==
    LET r == req[p]
    IN /\ r.op = "adjust" /\ r.pc = "q2"
       /\ nextTransactionID' = nextTransactionID + 1
       /\ req' = [req EXCEPT ![p] =
                    [r EXCEPT !.pc = "commit",
                              !.writes = Append(@, WriteTransaction("insert", nextTransactionID,
                                                                    AdjustRow(r)))]]
       /\ UNCHANGED <<adminVars, Inventory, InventoryTransactions, received,
                      BillMaintenanceLedger, employeeVars>>

AdjustCommit(p) ==
    LET r == req[p]
    IN /\ r.op = "adjust" /\ r.pc = "commit"
       /\ CommitInventory(r)
       /\ req' = [req EXCEPT ![p] = Respond(release(commit(r)), 200)]
       /\ UNCHANGED <<adminVars, nextTransactionID, BillMaintenanceLedger, employeeVars>>

----------------------------------------------------------------------------
(* POST /maintenance-ledger *)

MaintenanceRequest(p) ==
    /\ CanArrive(p)
    /\ \E r \in MaintenanceArrivals :
         req' = [req EXCEPT ![p] = Enter(r, [r EXCEPT !.pc = "q1"])]
    /\ UNCHANGED <<adminVars, inventoryVars, BillMaintenanceLedger, employeeVars>>

\* INSERT INTO BillMaintenanceLedger (HotelID, ServiceType, Amount, LedgerDate) VALUES (?, ?, ?, ?)
MaintenanceInsert(p) ==
    LET r == req[p]
    IN /\ r.op = "maintenance-ledger" /\ r.pc = "q1"
       /\ BillMaintenanceLedger' =
              Append(BillMaintenanceLedger, [HotelID |-> HotelOf(r), Amount |-> r.b.amount])
       /\ req' = [req EXCEPT ![p] = Respond(r, 201)]
       /\ UNCHANGED <<adminVars, inventoryVars, employeeVars>>

----------------------------------------------------------------------------
(* Employee routes: data *)

\* The Department rows the routes look up; no route of these routers writes them.
Department ==
    (1 :> [HotelID |-> 1, DeptName |-> "Front Desk"])
    @@ (2 :> [HotelID |-> 2, DeptName |-> "Front Desk"])

\* SELECT DeptID FROM Department WHERE DeptName = ? AND HotelID = ? LIMIT 1
FindDept(deptName, hotelID) ==
    {d \in DOMAIN Department :
        Department[d].DeptName = deptName /\ Department[d].HotelID = hotelID}

\* SELECT 1 FROM Department WHERE DeptID = ? AND HotelID = ?
DeptInHotel(deptID, hotelID) ==
    deptID \in DOMAIN Department /\ Department[deptID].HotelID = hotelID

\* isIn(['Receptionist', 'Housekeeping', 'Staff', 'Contractor'])
AssignableRoles == {"Receptionist", "Housekeeping", "Staff", "Contractor"}

\* /api/employees: employeeValidationRules
employeeValidationRules(b) ==
    /\ IsPositive(b.deptID)
    /\ b.firstName # ""
    /\ b.workingStatus \in {"Working", "Inactive", "Not Working"}
    /\ b.role \in AssignableRoles

\* /api/employees: updateEmployeeValidationRules
updateEmployeeValidationRules(b) ==
    /\ IsPositive(b.empID)
    /\ b.firstName # ""
    /\ b.deptName # ""
    /\ b.role \in AssignableRoles
    /\ b.workingStatus \in {"Working", "Inactive", "Not Working"}
    /\ IsPositive(b.hotelID)

\* /api/manager/employees: employeeAddValidationForManager
employeeAddValidationForManager(b) ==
    /\ IsPositive(b.deptID)
    /\ b.firstName # ""
    /\ b.workingStatus \in {"Working", "Inactive"}
    /\ b.role \in AssignableRoles

\* /api/manager/employees: employeeUpdateValidationForManager.  An optional field that
\* is absent is "" (a string) or 0 (a number); body('role').not().exists().
employeeUpdateValidationForManager(b) ==
    /\ IsPositive(b.empID)
    /\ b.deptID >= 0
    /\ b.role = ""

\* param('empID').isInt({ gt: 0 })
empIDValidation(b) == IsPositive(b.empID)

\* PATCH /:empID/status: the empID rule and body('status').isIn(['Inactive', 'Working'])
statusValidation(b) == IsPositive(b.empID) /\ b.status \in {"Inactive", "Working"}

NewEmployee(b) ==
    [DeptID |-> b.deptID, FirstName |-> b.firstName, Role |-> b.role,
     working_status |-> b.workingStatus]

\* SET FirstName = ?, ..., Role = ?, working_status = ?, ..., DeptID = ?
FullUpdate(b, deptID) ==
    [DeptID |-> deptID, FirstName |-> b.firstName, Role |-> b.role,
     working_status |-> b.workingStatus]

LegacyAddInputs ==
    {In("legacy", 0, [deptID |-> 1, firstName |-> "Cy", role |-> ro, workingStatus |-> "Working"]) :
        ro \in {"Staff", "manager"}}

LegacyUpdateInputs ==
    {In("legacy", 0, b) : b \in
        {[empID |-> 1, firstName |-> "Zed", deptName |-> "Front Desk", hotelID |-> 1,
          role |-> "manager", workingStatus |-> "Working"],
         [empID |-> 9, firstName |-> "Zed", deptName |-> "Front Desk", hotelID |-> 1,
          role |-> "Staff", workingStatus |-> "Working"],
         [empID |-> 1, firstName |-> "Zed", deptName |-> "Spa", hotelID |-> 1,
          role |-> "Staff", workingStatus |-> "Working"]}}

EmployeeAddInputs ==
    {In("employees", 0, [deptID |-> 2, firstName |-> "Dee", role |-> ro, workingStatus |-> "Working"]) :
        ro \in {"Staff", "manager"}}

EmployeeUpdateInputs ==
    {In("employees", 0, b) : b \in
        {[empID |-> 1, firstName |-> "Zoe", deptName |-> "Front Desk", hotelID |-> 2,
          role |-> "Staff", workingStatus |-> "Working"],
         [empID |-> 9, firstName |-> "Zoe", deptName |-> "Front Desk", hotelID |-> 1,
          role |-> "Staff", workingStatus |-> "Working"],
         [empID |-> 1, firstName |-> "Zoe", deptName |-> "Spa", hotelID |-> 1,
          role |-> "Staff", workingStatus |-> "Working"],
         [empID |-> 1, firstName |-> "Zoe", deptName |-> "Front Desk", hotelID |-> 1,
          role |-> "manager", workingStatus |-> "Working"]}}

EmployeeDeleteInputs == {In("employees", 0, [empID |-> e]) : e \in 0..2}

ManagerAddInputs ==
    {In("managerEmployees", 1, b) : b \in
        {[deptID |-> 1, firstName |-> "Eve", role |-> "Staff", workingStatus |-> "Working"],
         [deptID |-> 2, firstName |-> "Eve", role |-> "Staff", workingStatus |-> "Working"],
         [deptID |-> 1, firstName |-> "Eve", role |-> "manager", workingStatus |-> "Working"]}}

ManagerUpdateBody(e, firstName, deptID, role, hiredDate) ==
    [empID |-> e, firstName |-> firstName, deptID |-> deptID, role |-> role,
     hiredDate |-> hiredDate]

ManagerUpdateInputs ==
    {In("managerEmployees", 2, ManagerUpdateBody(2, "Max", 0, "", "")),
     In("managerEmployees", 1, ManagerUpdateBody(2, "Max", 0, "", "")),
     In("managerEmployees", 1, ManagerUpdateBody(1, "Max", 0, "", "")),
     In("managerEmployees", 1, ManagerUpdateBody(1, "", 2, "", "")),
     In("managerEmployees", 1, ManagerUpdateBody(1, "Max", 0, "manager", "")),
     In("managerEmployees", 1, ManagerUpdateBody(1, "", 0, "", "")),
     In("managerEmployees", 1, ManagerUpdateBody(1, "", 0, "", "2024-01-01"))}

ManagerStatusInputs ==
    {In("managerEmployees", 2, [empID |-> 2, status |-> "Inactive"]),
     In("managerEmployees", 1, [empID |-> 2, status |-> "Inactive"]),
     In("managerEmployees", 1, [empID |-> 1, status |-> "Inactive"]),
     In("managerEmployees", 1, [empID |-> 1, status |-> "Fired"])}

LegacyAddArrivals ==
    {Arrived(in.router, "add-employee", in.user, 0, in.b, TRUE) : in \in LegacyAddInputs}

LegacyUpdateArrivals ==
    {Arrived(in.router, "update-employee", in.user, in.b.empID, in.b, TRUE) :
        in \in LegacyUpdateInputs}

EmployeeAddArrivals ==
    {Arrived(in.router, "add-employee", in.user, 0, in.b, employeeValidationRules(in.b)) :
        in \in EmployeeAddInputs}

EmployeeUpdateArrivals ==
    {Arrived(in.router, "update-employee", in.user, in.b.empID, in.b,
             updateEmployeeValidationRules(in.b)) : in \in EmployeeUpdateInputs}

EmployeeDeleteArrivals ==
    {Arrived(in.router, "delete-employee", in.user, in.b.empID, in.b, empIDValidation(in.b)) :
        in \in EmployeeDeleteInputs}

ManagerAddArrivals ==
    {Arrived(in.router, "add-employee", in.user, 0, in.b,
             employeeAddValidationForManager(in.b)) : in \in ManagerAddInputs}

ManagerUpdateArrivals ==
    {Arrived(in.router, "update-employee", in.user, in.b.empID, in.b,
             employeeUpdateValidationForManager(in.b)) : in \in ManagerUpdateInputs}

ManagerStatusArrivals ==
    {Arrived(in.router, "status", in.user, in.b.empID, in.b, statusValidation(in.b)) :
        in \in ManagerStatusInputs}

RowExists(e) == e \in DOMAIN Employee
EmployeeHotel(e) == Department[Employee[e].DeptID].HotelID

----------------------------------------------------------------------------
(* employeeRoute.js: POST /add-employee and POST /update-employee *)

LegacyAddRequest(p) ==
    /\ CanArrive(p)
    /\ \E r \in LegacyAddArrivals :
         req' = [req EXCEPT ![p] = Enter(r, [r EXCEPT !.pc = "q1"])]
    /\ UNCHANGED <<adminVars, inventoryVars, BillMaintenanceLedger, employeeVars>>

\* INSERT INTO Employee (...) VALUES (...); res.send("Employee added successfully.")
LegacyAddInsert(p) ==
    LET r == req[p]
    IN /\ r.router = "legacy" /\ r.op = "add-employee" /\ r.pc = "q1"
       /\ Employee' = Employee @@ (nextEmpID :> NewEmployee(r.b))
       /\ nextEmpID' = nextEmpID + 1
       /\ req' = [req EXCEPT ![p] = Respond([r EXCEPT !.id = nextEmpID], 200)]
       /\ UNCHANGED <<adminVars, inventoryVars, BillMaintenanceLedger>>

LegacyUpdateRequest(p) ==
    /\ CanArrive(p)
    /\ \E r \in LegacyUpdateArrivals :
         req' = [req EXCEPT ![p] = Enter(r, [r EXCEPT !.pc = "q1"])]
    /\ UNCHANGED <<adminVars, inventoryVars, BillMaintenanceLedger, employeeVars>>

\* db.query(findDeptQuery, ...): 404 "Department not found." when it returns no row.
LegacyUpdateFindDept(p) ==
    LET r == req[p]
        deptResult == FindDept(r.b.deptName, r.b.hotelID)
    IN /\ r.router = "legacy" /\ r.op = "update-employee" /\ r.pc = "q1"
       /\ req' = [req EXCEPT ![p] =
                    IF deptResult = {} THEN Respond(r, 404)
                    ELSE [r EXCEPT !.pc = "q2",
                                   !.loc = [deptID |-> CHOOSE d \in deptResult : TRUE]]]
       /\ UNCHANGED <<adminVars, inventoryVars, BillMaintenanceLedger, employeeVars>>

\* db.query(updateQuery, ...) on the pool, committed at once; the result is not looked
\* at: res.send("Employee updated successfully.")
LegacyUpdateRow(p) ==
    LET r == req[p]
        e == r.id
    IN /\ r.router = "legacy" /\ r.op = "update-employee" /\ r.pc = "q2"
       /\ RowExists(e) => ~LockedByOther(p, <<"Employee", e>>)
       /\ Employee' = IF RowExists(e)
                      THEN [Employee EXCEPT ![e] = FullUpdate(r.b, r.loc.deptID)]
                      ELSE Employee
       /\ req' = [req EXCEPT ![p] = Respond(r, 200)]
       /\ UNCHANGED <<adminVars, inventoryVars, BillMaintenanceLedger, nextEmpID>>

----------------------------------------------------------------------------
(* /api/employees: POST /add, PUT /update, DELETE /:empID *)

EmployeeAddRequest(p) ==
    /\ CanArrive(p)
    /\ \E r \in EmployeeAddArrivals :
         req' = [req EXCEPT ![p] = Enter(r, [r EXCEPT !.pc = "q1"])]
    /\ UNCHANGED <<adminVars, inventoryVars, BillMaintenanceLedger, employeeVars>>

\* await db.query(INSERT INTO Employee ...); 201
EmployeeAddInsert(p) ==
    LET r == req[p]
    IN /\ r.router = "employees" /\ r.op = "add-employee" /\ r.pc = "q1"
       /\ Employee' = Employee @@ (nextEmpID :> NewEmployee(r.b))
       /\ nextEmpID' = nextEmpID + 1
       /\ req' = [req EXCEPT ![p] = Respond([r EXCEPT !.id = nextEmpID], 201)]
       /\ UNCHANGED <<adminVars, inventoryVars, BillMaintenanceLedger>>

EmployeeUpdateRequest(p) ==
    /\ CanArrive(p)
    /\ \E r \in EmployeeUpdateArrivals : req' = [req EXCEPT ![p] = EnterTransaction(r)]
    /\ UNCHANGED <<adminVars, inventoryVars, BillMaintenanceLedger, employeeVars>>

\* 1. Find Department ID based on Name and HotelID
EmployeeUpdateFindDept(p) ==
    LET r == req[p]
        deptResult == FindDept(r.b.deptName, r.b.hotelID)
    IN /\ r.router = "employees" /\ r.op = "update-employee" /\ r.pc = "q1"
       /\ req' = [req EXCEPT ![p] =
                    IF deptResult = {} THEN Respond(release(rollback(r)), 404)
                    ELSE [r EXCEPT !.pc = "q2",
                                   !.loc = [deptID |-> CHOOSE d \in deptResult : TRUE]]]
       /\ UNCHANGED <<adminVars, inventoryVars, BillMaintenanceLedger, employeeVars>>

\* 2. Update Employee Record; affectedRows === 0: rollback, 404
EmployeeUpdateRow(p) ==
    LET r == req[p]
        e == r.id
    IN /\ r.router = "employees" /\ r.op = "update-employee" /\ r.pc = "q2"
       /\ RowExists(e) => ~LockedByOther(p, <<"Employee", e>>)
       /\ req' = [req EXCEPT ![p] =
                    IF ~RowExists(e) THEN Respond(release(rollback(r)), 404)
                    ELSE [r EXCEPT !.pc = "commit",
                                   !.locks = @ \cup {<<"Employee", e>>},
                                   !.writes = Append(@, WriteEmployee("update", e,
                                                 FullUpdate(r.b, r.loc.deptID)))]]
       /\ UNCHANGED <<adminVars, inventoryVars, BillMaintenanceLedger, employeeVars>>

\* 3. Commit Transaction
EmployeeUpdateCommit(p) ==
    LET r == req[p]
    IN /\ r.router = "employees" /\ r.op = "update-employee" /\ r.pc = "commit"
       /\ CommitEmployee(r)
       /\ req' = [req EXCEPT ![p] = Respond(release(commit(r)), 200)]
       /\ UNCHANGED <<adminVars, inventoryVars, BillMaintenanceLedger, nextEmpID>>

EmployeeDeleteRequest(p) ==
    /\ CanArrive(p)
    /\ \E r \in EmployeeDeleteArrivals :
         req' = [req EXCEPT ![p] = Enter(r, [r EXCEPT !.pc = "q1"])]
    /\ UNCHANGED <<adminVars, inventoryVars, BillMaintenanceLedger, employeeVars>>

\* GET /api/employees/:hotelID
\* SELECT ... FROM Employee e INNER JOIN Department d ON e.DeptID = d.DeptID
\* WHERE d.HotelID = ? AND e.working_status = 'Working' AND e.Role <> 'manager'
\*   AND e.FirstName <> 'System'
\* on the Employee rows tbl; the result is given by its EmpIDs.
getEmployees(tbl, hotelID) ==
    {e \in DOMAIN tbl :
        /\ DeptInHotel(tbl[e].DeptID, hotelID)
        /\ tbl[e].working_status = "Working"
        /\ tbl[e].Role # "manager"
        /\ tbl[e].FirstName # "System"}

\* The statement is DELETE FROM Employee WHERE EmpID = ? AND Role <> 'manager'.
EmployeeDeleteUpdateHard(p) ==
    LET r == req[p]
        e == r.id
        hit == RowExists(e) /\ Employee[e].Role # "manager"
    IN /\ r.op = "delete-employee" /\ r.pc = "q1"
       /\ RowExists(e) => ~LockedByOther(p, <<"Employee", e>>)
       /\ Employee' = IF hit THEN [j \in DOMAIN Employee \ {e} |-> Employee[j]]
                      ELSE Employee
       /\ req' = [req EXCEPT ![p] = Respond(r, IF hit THEN 200 ELSE 404)]
       /\ UNCHANGED <<adminVars, inventoryVars, BillMaintenanceLedger, nextEmpID>>

\* UPDATE Employee SET working_status = 'Inactive' WHERE EmpID = ? AND Role <> 'manager'
EmployeeDeleteUpdate(p) ==
    LET r == req[p]
        e == r.id
        hit == RowExists(e) /\ Employee[e].Role # "manager"
    IN /\ r.op = "delete-employee" /\ r.pc = "q1"
       /\ RowExists(e) => ~LockedByOther(p, <<"Employee", e>>)
       /\ Employee' = IF hit THEN [Employee EXCEPT ![e].working_status = "Inactive"]
                      ELSE Employee
       /\ req' = [req EXCEPT ![p] = Respond(r, IF hit THEN 200 ELSE 404)]
       /\ UNCHANGED <<adminVars, inventoryVars, BillMaintenanceLedger, nextEmpID>>


----------------------------------------------------------------------------
(* DELETE /api/hotels/:hotelId *)

hotelIdParamValidation(b) == IsPositive(b.hotelId)

DeleteHotelInputs == {In("hotels", 0, [hotelId |-> h]) : h \in 0..4}

DeleteHotelArrivals ==
    {Arrived(in.router, "delete-hotel", in.user, in.b.hotelId, in.b,
             hotelIdParamValidation(in.b)) : in \in DeleteHotelInputs}

\* The foreign key of Department.HotelID on Hotel, ON DELETE RESTRICT: a hotel some
\* Department row references cannot be deleted.
ReferencedByDepartment(h) == \E d \in DOMAIN Department : Department[d].HotelID = h

\* SELECT 1 FROM Employee e JOIN Department d ON e.DeptID = d.DeptID
\* WHERE d.HotelID = ? AND e.working_status = 'Working' LIMIT 1
checkEmployeeQuery(h) ==
    {e \in DOMAIN Employee :
        DeptInHotel(Employee[e].DeptID, h) /\ Employee[e].working_status = "Working"}

DeleteHotelRequest(p) ==
    /\ CanArrive(p)
    /\ \E r \in DeleteHotelArrivals : req' = [req EXCEPT ![p] = EnterTransaction(r)]
    /\ UNCHANGED <<adminVars, inventoryVars, BillMaintenanceLedger, employeeVars>>

\* The check answers 409 and leaves the transaction open.
DeleteHotelCheckNoRollback(p) ==
    LET r == req[p]
        activeEmployees == checkEmployeeQuery(r.id)
    IN /\ r.op = "delete-hotel" /\ r.pc = "q1"
       /\ req' = [req EXCEPT ![p] =
                    IF activeEmployees # {}
                    THEN Respond(release(r), 409)
                    ELSE [r EXCEPT !.pc = "q2"]]
       /\ UNCHANGED <<adminVars, inventoryVars, BillMaintenanceLedger, employeeVars>>

\* const [activeEmployees] = await connection.query(checkEmployeeQuery, [hotelId]);
\* a plain SELECT, which takes no lock.
DeleteHotelCheck(p) ==
    LET r == req[p]
        activeEmployees == checkEmployeeQuery(r.id)
    IN /\ r.op = "delete-hotel" /\ r.pc = "q1"
       /\ req' = [req EXCEPT ![p] =
                    IF activeEmployees # {}
                    THEN Respond(release(rollback(r)), 409)
                    ELSE [r EXCEPT !.pc = "q2"]]
       /\ UNCHANGED <<adminVars, inventoryVars, BillMaintenanceLedger, employeeVars>>

\* DELETE FROM Hotel WHERE HotelID = ?
\* rollback and 404 when no row was affected; the catch block rolls back and answers
\* 409 to ER_ROW_IS_REFERENCED and ER_ROW_IS_REFERENCED_2; the row is gone for the
\* other connections at commit.
DeleteHotelDelete(p) ==
    LET r == req[p]
        h == r.id
    IN /\ r.op = "delete-hotel" /\ r.pc = "q2"
       /\ h \in Hotel => ~LockedByOther(p, <<"Hotel", h>>)
       /\ req' = [req EXCEPT ![p] =
                    IF h \notin Hotel THEN Respond(release(rollback(r)), 404)
                    ELSE IF ReferencedByDepartment(h)
                    THEN Respond(release(rollback([r EXCEPT !.failed = TRUE])), 409)
                    ELSE [r EXCEPT !.pc = "commit", !.locks = @ \cup {<<"Hotel", h>>}]]
       /\ UNCHANGED <<adminVars, inventoryVars, BillMaintenanceLedger, employeeVars>>

DeleteHotelCommit(p) ==
    LET r == req[p]
    IN /\ r.op = "delete-hotel" /\ r.pc = "commit"
       /\ Hotel' = Hotel \ {r.id}
       /\ req' = [req EXCEPT ![p] = Respond(release(commit(r)), 200)]
       /\ UNCHANGED <<available_rooms, Booking, inventoryVars, BillMaintenanceLedger,
                      employeeVars>>

----------------------------------------------------------------------------
(* /api/manager/employees: POST /add, PUT /update, PATCH /:empID/status *)

ManagerAddRequest(p) ==
    /\ CanArrive(p)
    /\ \E r \in ManagerAddArrivals : req' = [req EXCEPT ![p] = EnterTransaction(r)]
    /\ UNCHANGED <<adminVars, inventoryVars, BillMaintenanceLedger, employeeVars>>

\* Security Check: Ensure the DeptID belongs to the manager's hotel
ManagerAddDeptCheck(p) ==
    LET r == req[p]
    IN /\ r.router = "managerEmployees" /\ r.op = "add-employee" /\ r.pc = "q1"
       /\ req' = [req EXCEPT ![p] =
                    IF ~DeptInHotel(r.b.deptID, r.user)
                    THEN Respond(release(rollback(r)), 403)
                    ELSE [r EXCEPT !.pc = "q2"]]
       /\ UNCHANGED <<adminVars, inventoryVars, BillMaintenanceLedger, employeeVars>>

\* connection.query(INSERT INTO Employee ...): the AUTO_INCREMENT value is taken now,
\* the row is visible at commit.
ManagerAddInsert(p) ==
    LET r == req[p]
    IN /\ r.router = "managerEmployees" /\ r.op = "add-employee" /\ r.pc = "q2"
       /\ nextEmpID' = nextEmpID + 1
       /\ req' = [req EXCEPT ![p] =
                    [r EXCEPT !.pc = "commit", !.id = nextEmpID,
                              !.writes = Append(@, WriteEmployee("insert", nextEmpID,
                                                                 NewEmployee(r.b)))]]
       /\ UNCHANGED <<adminVars, inventoryVars, BillMaintenanceLedger, Employee>>

ManagerAddCommit(p) ==
    LET r == req[p]
    IN /\ r.router = "managerEmployees" /\ r.op = "add-employee" /\ r.pc = "commit"
       /\ CommitEmployee(r)
       /\ req' = [req EXCEPT ![p] = Respond(release(commit(r)), 201)]
       /\ UNCHANGED <<adminVars, inventoryVars, BillMaintenanceLedger, nextEmpID>>

ManagerUpdateRequest(p) ==
    /\ CanArrive(p)
    /\ \E r \in ManagerUpdateArrivals : req' = [req EXCEPT ![p] = EnterTransaction(r)]
    /\ UNCHANGED <<adminVars, inventoryVars, BillMaintenanceLedger, employeeVars>>

\* "Build dynamic update query": hiredDate ? formatDate(hiredDate) : undefined names a
\* function the file neither defines nor imports, so a request with a hiredDate throws
\* into the catch block; with no field to set the answer is 400.
ManagerUpdateBuild(r) ==
    IF r.b.hiredDate # "" THEN Respond(release(rollback(r)), 500)
    ELSE IF r.b.firstName = "" /\ r.b.deptID = 0 THEN Respond(release(rollback(r)), 400)
    ELSE [r EXCEPT !.pc = "q3"]

\* SELECT 1 FROM Employee e JOIN Department d ON e.DeptID = d.DeptID
\* WHERE e.EmpID = ? AND d.HotelID = ? AND e.Role <> 'manager'      (a plain read)
ManagerUpdateEmpCheck(p) ==
    LET r == req[p]
        e == r.id
        empCheck == /\ RowExists(e)
                    /\ EmployeeHotel(e) = r.user
                    /\ Employee[e].Role # "manager"
    IN /\ r.router = "managerEmployees" /\ r.op = "update-employee" /\ r.pc = "q1"
       /\ req' = [req EXCEPT ![p] =
                    IF ~empCheck THEN Respond(release(rollback(r)), 403)
                    ELSE IF r.b.deptID # 0 THEN [r EXCEPT !.pc = "q2"]
                    ELSE ManagerUpdateBuild(r)]
       /\ UNCHANGED <<adminVars, inventoryVars, BillMaintenanceLedger, employeeVars>>

\* if (deptID): SELECT 1 FROM Department WHERE DeptID = ? AND HotelID = ?
ManagerUpdateDeptCheck(p) ==
    LET r == req[p]
    IN /\ r.router = "managerEmployees" /\ r.op = "update-employee" /\ r.pc = "q2"
       /\ req' = [req EXCEPT ![p] =
                    IF ~DeptInHotel(r.b.deptID, r.user)
                    THEN Respond(release(rollback(r)), 403)
                    ELSE ManagerUpdateBuild(r)]
       /\ UNCHANGED <<adminVars, inventoryVars, BillMaintenanceLedger, employeeVars>>

\* addField: only the fields the body gives are set.
PartialUpdate(row, b) ==
    [row EXCEPT !.FirstName = IF b.firstName # "" THEN b.firstName ELSE @,
                !.DeptID = IF b.deptID # 0 THEN b.deptID ELSE @]

\* UPDATE Employee SET <fields> WHERE EmpID = ?
ManagerUpdateRow(p) ==
    LET r == req[p]
        e == r.id
    IN /\ r.router = "managerEmployees" /\ r.op = "update-employee" /\ r.pc = "q3"
       /\ RowExists(e) => ~LockedByOther(p, <<"Employee", e>>)
       /\ req' = [req EXCEPT ![p] =
                    IF ~RowExists(e)
                    THEN [r EXCEPT !.pc = "commit", !.loc = [affectedRows |-> 0]]
                    ELSE [r EXCEPT !.pc = "commit", !.loc = [affectedRows |-> 1],
                                   !.locks = @ \cup {<<"Employee", e>>},
                                   !.writes = Append(@, WriteEmployee("update", e,
                                                 PartialUpdate(Employee[e], r.b)))]]
       /\ UNCHANGED <<adminVars, inventoryVars, BillMaintenanceLedger, employeeVars>>

\* await connection.commit(); then affectedRows === 0: 404
ManagerUpdateCommit(p) ==
    LET r == req[p]
    IN /\ r.router = "managerEmployees" /\ r.op = "update-employee" /\ r.pc = "commit"
       /\ CommitEmployee(r)
       /\ req' = [req EXCEPT ![p] =
                    Respond(release(commit(r)), IF r.loc.affectedRows = 0 THEN 404 ELSE 200)]
       /\ UNCHANGED <<adminVars, inventoryVars, BillMaintenanceLedger, nextEmpID>>

ManagerStatusRequest(p) ==
    /\ CanArrive(p)
    /\ \E r \in ManagerStatusArrivals :
         req' = [req EXCEPT ![p] = Enter(r, [r EXCEPT !.pc = "q1"])]
    /\ UNCHANGED <<adminVars, inventoryVars, BillMaintenanceLedger, employeeVars>>

\* UPDATE Employee e JOIN Department d ON e.DeptID = d.DeptID SET e.working_status = ?
\* WHERE e.EmpID = ? AND d.HotelID = ? AND e.Role <> 'manager'
ManagerStatusUpdate(p) ==
    LET r == req[p]
        e == r.id
        hit == /\ RowExists(e)
               /\ EmployeeHotel(e) = r.user
               /\ Employee[e].Role # "manager"
    IN /\ r.op = "status" /\ r.pc = "q1"
       /\ RowExists(e) => ~LockedByOther(p, <<"Employee", e>>)
       /\ Employee' = IF hit THEN [Employee EXCEPT ![e].working_status = r.b.status]
                      ELSE Employee
       /\ req' = [req EXCEPT ![p] = Respond(r, IF hit THEN 200 ELSE 404)]
       /\ UNCHANGED <<adminVars, inventoryVars, BillMaintenanceLedger, nextEmpID>>

----------------------------------------------------------------------------
(* A database call rejects *)

\* The catch block of the handler a rejected query or commit throws into, and the
\* finally block after it.
Catch(r) ==
    LET f == [r EXCEPT !.failed = TRUE]
    IN CASE r.op \in {"receive-order", "adjust"} /\ r.router = "inventory" ->
                Respond(release(rollback(f)), 500)
         [] r.op = "adjust" /\ r.router = "managerInventory" ->
                Respond(release(rollback(f)), 500)
         [] r.op = "receive-order" /\ r.router = "managerInventory" ->
                Hang(release(rollback(f)))
         [] r.router \in {"inventory", "expenses"} ->
                Respond(f, 500)
         [] OTHER -> Hang(f)

\* An awaited connection.query, db.query or connection.commit of an inventory or
\* ledger handler rejects; nothing of it took effect.
QueryFails(p) ==
    /\ InFlight(req[p])
    /\ req[p].op \in {"receive-order", "order-item", "adjust", "maintenance-ledger"}
    /\ req' = [req EXCEPT ![p] = Catch(req[p])]
    /\ UNCHANGED <<adminVars, inventoryVars, BillMaintenanceLedger, employeeVars>>

\* connection.beginTransaction() rejects.  It is awaited before the try block, so the
\* handler's promise rejects with nothing to catch it: no response, no release.
BeginTransactionFails(p) ==
    /\ CanArrive(p)
    /\ \E r \in ReceiveOrderArrivals \cup AdjustArrivals :
         /\ Middleware(r.router, ~r.valid) = "next"
         /\ req' = [req EXCEPT ![p] = Hang(getConnection([r EXCEPT !.failed = TRUE]))]
    /\ UNCHANGED <<adminVars, inventoryVars, BillMaintenanceLedger, employeeVars>>

----------------------------------------------------------------------------
(* Specifications of the inventory and ledger routes *)

\* A receptionist of hotel 1 and the manager of hotel 2.
InitEmployee ==
    (1 :> [DeptID |-> 1, FirstName |-> "Ann", Role |-> "Receptionist",
           working_status |-> "Working"])
    @@ (2 :> [DeptID |-> 2, FirstName |-> "Bob", Role |-> "manager",
              working_status |-> "Working"])

\* Rooms 1 and 2 of hotel 1; hotels 1 and 2, and hotel 3 which has no department yet.
InitRooms == (1 :> [HotelID |-> 1]) @@ (2 :> [HotelID |-> 1])
InitHotel == {1, 2, 3}
\* A stay in room 2 that ended the day before.
InitBooking == <<[RoomID |-> 2, CheckOutDate |-> CURDATE - 1]>>

Init ==
    /\ Inventory = (1 :> [HotelID |-> 1, ItemName |-> "Soap", Quantity |-> 0])
                   @@ (2 :> [HotelID |-> 2, ItemName |-> "Soap", Quantity |-> 0])
    /\ InventoryTransactions =
           (1 :> [InventoryID |-> 1, HotelID |-> 1, TransactionType |-> "Order",
                  Quantity |-> 2, Status |-> "Pending", UnitPrice |-> 5, ReceiveDate |-> 0])
    /\ nextTransactionID = 2
    /\ BillMaintenanceLedger = <<>>
    /\ Employee = InitEmployee
    /\ nextEmpID = 3
    /\ available_rooms = InitRooms
    /\ Booking = InitBooking
    /\ Hotel = InitHotel
    /\ received = [t \in TransactionIDs |-> 0]
    /\ req = [p \in Reqs |-> Idle]

InventoryStep(p) ==
    \/ ReceiveOrderRequest(p)
    \/ ReceiveOrderSelect(p)
    \/ ReceiveOrderUpdateInventory(p)
    \/ ReceiveOrderUpdateTransaction(p)
    \/ ReceiveOrderCommit(p)
    \/ OrderItemRequest(p)
    \/ OrderItemCheck(p)
    \/ OrderItemInsert(p)
    \/ AdjustRequest(p)
    \/ AdjustUpdateInventory(p)
    \/ AdjustLog(p)
    \/ AdjustCommit(p)

Next ==
    \E p \in Reqs :
        \/ InventoryStep(p)
        \/ MaintenanceRequest(p)
        \/ MaintenanceInsert(p)

\* Every database call succeeds.
Spec == Init /\ [][Next]_vars

NextFail ==
    \E p \in Reqs :
        \/ InventoryStep(p)
        \/ QueryFails(p)
        \/ BeginTransactionFails(p)

\* Database calls may reject.
SpecFail == Init /\ [][NextFail]_vars

----------------------------------------------------------------------------
(* Specification of the employee routes *)

NextEmployee ==
    \E p \in Reqs :
        \/ LegacyAddRequest(p)
        \/ LegacyAddInsert(p)
        \/ LegacyUpdateRequest(p)
        \/ LegacyUpdateFindDept(p)
        \/ LegacyUpdateRow(p)
        \/ EmployeeAddRequest(p)
        \/ EmployeeAddInsert(p)
        \/ EmployeeUpdateRequest(p)
        \/ EmployeeUpdateFindDept(p)
        \/ EmployeeUpdateRow(p)
        \/ EmployeeUpdateCommit(p)
        \/ EmployeeDeleteRequest(p)
        \/ EmployeeDeleteUpdate(p)
        \/ ManagerAddRequest(p)
        \/ ManagerAddDeptCheck(p)
        \/ ManagerAddInsert(p)
        \/ ManagerAddCommit(p)
        \/ ManagerUpdateRequest(p)
        \/ ManagerUpdateEmpCheck(p)
        \/ ManagerUpdateDeptCheck(p)
        \/ ManagerUpdateRow(p)
        \/ ManagerUpdateCommit(p)
        \/ ManagerStatusRequest(p)
        \/ ManagerStatusUpdate(p)

SpecEmployee == Init /\ [][NextEmployee]_vars

----------------------------------------------------------------------------
(* Specification of the item routes *)

ItemStep(p) ==
    \/ AddItemRequest(p)
    \/ AddItemCheck(p)
    \/ AddItemInsert(p)
    \/ UpdateItemRequest(p)
    \/ UpdateItemCheck(p)
    \/ UpdateItemRow(p)

NextItem == \E p \in Reqs : ItemStep(p)

SpecItem == Init /\ [][NextItem]_vars

----------------------------------------------------------------------------
(* Specification of the room routes *)

RoomStep(p) ==
    \/ DeleteRoomRequest(p)
    \/ DeleteRoomCheck(p)
    \/ DeleteRoomDelete(p)
    \/ BookingInsert(p)

NextRoom == \E p \in Reqs : RoomStep(p)

SpecRoom == Init /\ [][NextRoom]_vars

----------------------------------------------------------------------------
(* Specification of the hotel routes, with the routes that add and deactivate employees *)

HotelStep(p) ==
    \/ DeleteHotelRequest(p)
    \/ DeleteHotelCheck(p)
    \/ DeleteHotelDelete(p)
    \/ DeleteHotelCommit(p)
    \/ EmployeeDeleteRequest(p)
    \/ EmployeeDeleteUpdate(p)
    \/ LegacyAddRequest(p)
    \/ LegacyAddInsert(p)

NextHotel == \E p \in Reqs : HotelStep(p)

SpecHotel == Init /\ [][NextHotel]_vars

----------------------------------------------------------------------------
(* Specification of the /api/employees router alone *)

EmployeesStep(p) ==
    \/ EmployeeAddRequest(p)
    \/ EmployeeAddInsert(p)
    \/ EmployeeUpdateRequest(p)
    \/ EmployeeUpdateFindDept(p)
    \/ EmployeeUpdateRow(p)
    \/ EmployeeUpdateCommit(p)
    \/ EmployeeDeleteRequest(p)
    \/ EmployeeDeleteUpdate(p)

NextEmployees == \E p \in Reqs : EmployeesStep(p)

SpecEmployees == Init /\ [][NextEmployees]_vars

----------------------------------------------------------------------------
(* Specification of receive-order on a database with an order whose item has no row *)

\* The state the guard after the UPDATE of Inventory is written for: order 1 is for
\* item 3, which has no Inventory row; order 2 is for item 1.
InitOrphan ==
    /\ Inventory = (1 :> [HotelID |-> 1, ItemName |-> "Soap", Quantity |-> 0])
                   @@ (2 :> [HotelID |-> 2, ItemName |-> "Soap", Quantity |-> 0])
    /\ InventoryTransactions =
           (1 :> [InventoryID |-> 3, HotelID |-> 1, TransactionType |-> "Order",
                  Quantity |-> 2, Status |-> "Pending", UnitPrice |-> 5, ReceiveDate |-> 0])
           @@ (2 :> [InventoryID |-> 1, HotelID |-> 1, TransactionType |-> "Order",
                     Quantity |-> 2, Status |-> "Pending", UnitPrice |-> 5, ReceiveDate |-> 0])
    /\ nextTransactionID = 3
    /\ BillMaintenanceLedger = <<>>
    /\ Employee = InitEmployee
    /\ nextEmpID = 3
    /\ available_rooms = InitRooms
    /\ Booking = InitBooking
    /\ Hotel = InitHotel
    /\ received = [t \in TransactionIDs |-> 0]
    /\ req = [p \in Reqs |-> Idle]

ReceiveOrderStep(p) ==
    \/ ReceiveOrderRequest(p)
    \/ ReceiveOrderSelect(p)
    \/ ReceiveOrderUpdateInventory(p)
    \/ ReceiveOrderUpdateTransaction(p)
    \/ ReceiveOrderCommit(p)

NextOrphan == \E p \in Reqs : ReceiveOrderStep(p)

SpecOrphan == InitOrphan /\ [][NextOrphan]_vars

----------------------------------------------------------------------------
(* Properties *)

RECURSIVE SumQuantity(_)
SumQuantity(T) ==
    IF T = {} THEN 0
    ELSE LET t == CHOOSE x \in T : TRUE
         IN InventoryTransactions[t].Quantity + SumQuantity(T \ {t})

\* The ledger rows of item i that are 'Completed': received orders and adjustments.
CompletedRows(i) ==
    {t \in DOMAIN InventoryTransactions :
        /\ InventoryTransactions[t].InventoryID = i
        /\ InventoryTransactions[t].Status = "Completed"}

IsOrder(t) ==
    t \in DOMAIN InventoryTransactions /\ InventoryTransactions[t].TransactionType = "Order"

ReceiveOrderOf(p, t) ==
    /\ req[p].op = "receive-order" /\ Finished(req[p])
    /\ req[p].valid /\ req[p].id = t

Transacted == <<"get", "begin", "commit", "release">>
RolledBack == <<"get", "begin", "rollback", "release">>

\* C1: a receive-order adds the order's Quantity to Inventory exactly once: the
\* Quantity of an order is added at most once, by the one request answered 200, and
\* every other finished receive-order request naming the order is answered 404.
C1_ReceivedExactlyOnce ==
    \A t \in DOMAIN InventoryTransactions :
        LET named == {p \in Reqs : ReceiveOrderOf(p, t)}
        IN IsOrder(t) =>
              /\ received[t] <= 1
              /\ Cardinality({p \in named : req[p].resp = 200}) = received[t]
              /\ \A p \in named : req[p].resp \in {200, 404}

\* C1, on /api/inventory alone: the same statement for the requests sent to the router
\* whose validation helper calls next().
C1_InventoryRouter ==
    \A t \in DOMAIN InventoryTransactions :
        LET named == {p \in Reqs : ReceiveOrderOf(p, t) /\ req[p].router = "inventory"}
        IN IsOrder(t) =>
              /\ received[t] <= 1
              /\ Cardinality({p \in named : req[p].resp = 200}) = received[t]
              /\ \A p \in named : req[p].resp \in {200, 404}

AdjustOf(p) == req[p].op = "adjust" /\ Finished(req[p]) /\ req[p].valid

\* C3: an adjustment changes Quantity and appends its one 'Completed' ledger row
\* together or not at all; an adjustment of an item that does not exist is answered
\* 404, one whose statement rejected is rolled back and answered 500, and only an
\* adjustment answered 200 has committed.
C3_AdjustAtomic ==
    /\ \A i \in DOMAIN Inventory : Inventory[i].Quantity = SumQuantity(CompletedRows(i))
    /\ \A p \in Reqs :
         AdjustOf(p) =>
            /\ req[p].id \notin DOMAIN Inventory /\ ~req[p].failed => req[p].resp = 404
            /\ req[p].failed /\ Len(req[p].conn) > 1
                   => req[p].resp = 500 /\ req[p].conn = RolledBack
            /\ req[p].conn = Transacted <=> req[p].resp = 200

\* C3, on /api/inventory alone.
C3_InventoryRouter ==
    /\ \A i \in DOMAIN Inventory : Inventory[i].Quantity = SumQuantity(CompletedRows(i))
    /\ \A p \in Reqs :
         AdjustOf(p) /\ req[p].router = "inventory" =>
            /\ req[p].id \notin DOMAIN Inventory /\ ~req[p].failed => req[p].resp = 404
            /\ req[p].failed /\ Len(req[p].conn) > 1
                   => req[p].resp = 500 /\ req[p].conn = RolledBack
            /\ req[p].conn = Transacted <=> req[p].resp = 200

\* C4: a request that violates its route's validation rules is answered 400 and
\* reaches no database call.
C4_InvalidAnswered400 ==
    \A p \in Reqs :
        req[p].pc # "idle" /\ ~req[p].valid =>
            /\ req[p].pc = "done"
            /\ req[p].resp = 400
            /\ req[p].conn = <<>>

\* C4, the part that holds on every router: the handler runs only for a request that
\* satisfies the rules.
C4_HandlerOnlyWhenValid ==
    \A p \in Reqs : ~req[p].valid => ~InFlight(req[p]) /\ req[p].conn = <<>>

UpdateEmployeeOf(p) ==
    /\ req[p].op = "update-employee" /\ Finished(req[p]) /\ req[p].valid
    /\ req[p].router \in {"legacy", "employees"}

\* C5: update-employee answers success only after the commit of the transaction that
\* held its department lookup and its UPDATE, and answers 404 when no Employee row
\* has the given EmpID.
C5_UpdateEmployeeTransaction ==
    \A p \in Reqs :
        UpdateEmployeeOf(p) =>
            /\ req[p].resp = 200 => req[p].conn = Transacted
            /\ req[p].id \notin DOMAIN Employee => req[p].resp = 404

\* C5, on PUT /api/employees/update alone.
C5_EmployeesRouter ==
    \A p \in Reqs :
        UpdateEmployeeOf(p) /\ req[p].router = "employees" =>
            /\ req[p].resp = 200 => req[p].conn = Transacted
            /\ req[p].resp # 200 => req[p].conn = RolledBack
            /\ req[p].id \notin DOMAIN Employee => req[p].resp = 404

\* The step is one of request p.
StepOf(p) == req'[p] # req[p]

\* C6: the ledgers are append-only.  No step removes a row of InventoryTransactions or
\* of BillMaintenanceLedger or changes a ledger row's InventoryID, HotelID,
\* TransactionType, Quantity or UnitPrice; Status and ReceiveDate change only in the
\* commit of a receive-order naming the row, from 'Pending' with no date to 'Completed'
\* with one.
C6_LedgersAppendOnly ==
    [][/\ \A t \in DOMAIN InventoryTransactions :
            /\ t \in DOMAIN InventoryTransactions'
            /\ LET old == InventoryTransactions[t]
                   new == InventoryTransactions'[t]
               IN /\ new.InventoryID = old.InventoryID
                  /\ new.HotelID = old.HotelID
                  /\ new.TransactionType = old.TransactionType
                  /\ new.Quantity = old.Quantity
                  /\ new.UnitPrice = old.UnitPrice
                  /\ new # old =>
                        /\ old.Status = "Pending" /\ old.ReceiveDate = 0
                        /\ new.Status = "Completed" /\ new.ReceiveDate # 0
                        /\ \E p \in Reqs : /\ StepOf(p)
                                           /\ req[p].op = "receive-order"
                                           /\ req[p].id = t
       /\ Len(BillMaintenanceLedger') >= Len(BillMaintenanceLedger)
       /\ SubSeq(BillMaintenanceLedger', 1, Len(BillMaintenanceLedger)) = BillMaintenanceLedger
      ]_vars

\* C6 witness: order 1 has been received, an adjustment row and a maintenance row have
\* been appended.
C6_Witness ==
    /\ InventoryTransactions[1].Status = "Completed"
    /\ InventoryTransactions[1].ReceiveDate # 0
    /\ \E t \in DOMAIN InventoryTransactions :
           InventoryTransactions[t].TransactionType \in AdjustmentTypes
    /\ Len(BillMaintenanceLedger) > 0

\* C7: a handler that took a pooled connection has, when it is over, begun a
\* transaction, ended it by commit or rollback, and then released the connection once.
C7_ConnectionReleased ==
    \A p \in Reqs :
        Finished(req[p]) /\ req[p].conn # <<>> => req[p].conn \in {Transacted, RolledBack}

\* C7, while every beginTransaction succeeds: the same statement for the handlers
\* that got past it.
C7_AfterBegin ==
    \A p \in Reqs :
        Finished(req[p]) /\ Len(req[p].conn) > 1 => req[p].conn \in {Transacted, RolledBack}

ManagerStep(p) == StepOf(p) /\ req[p].router = "managerEmployees"

\* C8: a step of a manager's employee route changes or adds only Employee rows of
\* departments of the manager's own hotel.
C8_OwnHotelOnly ==
    [][\A p \in Reqs :
          ManagerStep(p) =>
             /\ \A e \in DOMAIN Employee :
                   Employee'[e] # Employee[e] => EmployeeHotel(e) = req[p].user
             /\ \A e \in DOMAIN Employee' \ DOMAIN Employee :
                   Department[Employee'[e].DeptID].HotelID = req[p].user]_vars

\* C9: no employee add or update endpoint gives an employee the role 'manager': the
\* managers are the rows that were managers at the start.
C9_NoManagerAssigned ==
    \A e \in DOMAIN Employee :
        Employee[e].Role = "manager" =>
            e \in DOMAIN InitEmployee /\ InitEmployee[e].Role = "manager"

\* C9, on the validated routers: a finished add or update request of /api/employees or
\* /api/manager/employees was not answered with success unless its role rule held.
C9_ValidatedRouters ==
    \A p \in Reqs :
        /\ req[p].router \in {"employees", "managerEmployees"}
        /\ req[p].op \in {"add-employee", "update-employee"}
        /\ ~req[p].valid
        => req[p].resp = 400

\* C10: a step of PUT /api/manager/employees/update, of PATCH
\* /api/manager/employees/:empID/status or of DELETE /api/employees/:empID leaves every
\* Employee row whose Role is 'manager' as it is.
C10_ManagersUntouched ==
    [][\A p \in Reqs :
          /\ StepOf(p)
          /\ \/ req[p].router = "managerEmployees" /\ req[p].op \in {"update-employee", "status"}
             \/ req[p].op = "delete-employee"
          => \A e \in DOMAIN Employee :
                Employee[e].Role = "manager" => Employee'[e] = Employee[e]]_vars

\* C10, for the two single-statement routes: the PATCH and the DELETE never change a
\* manager's row.
C10_SingleStatementRoutes ==
    [][\A p \in Reqs :
          StepOf(p) /\ req[p].op \in {"status", "delete-employee"}
          => \A e \in DOMAIN Employee :
                Employee[e].Role = "manager" => Employee'[e] = Employee[e]]_vars

----------------------------------------------------------------------------
(* C11 *)

DuplicateNames ==
    {<<i, j>> \in (DOMAIN Inventory) \X (DOMAIN Inventory) :
        /\ i # j
        /\ Inventory[i].HotelID = Inventory[j].HotelID
        /\ LOWER(Inventory[i].ItemName) = LOWER(Inventory[j].ItemName)}

\* C11: no two Inventory rows of one hotel have item names that are equal up to case,
\* whatever add-item and update-item requests run, concurrently or not.
C11_UniqueItemNames == DuplicateNames = {}

\* C11 on /api/inventory with one request at a time: a request whose name is taken in
\* its hotel is answered 409 and leaves Inventory as it was.
C11_OneAtATime ==
    [][\A p \in Reqs :
         /\ \A q \in Reqs \ {p} : ~InFlight(req[q])
         /\ req[p].router = "inventory" /\ req[p].pc = "q1" /\ StepOf(p)
         /\ DuplicateNames = {}
         => /\ DuplicateNames' = {}
            /\ req'[p].resp = 409 => Inventory' = Inventory]_vars

----------------------------------------------------------------------------
(* C12 *)

CurrentlyBooked(k) == checkBookingQuery(k) # {}

----------------------------------------------------------------------------
(* C13 *)

HasWorkingEmployee(h) == checkEmployeeQuery(h) # {}

----------------------------------------------------------------------------
(* C14 *)

\* C14: a step of DELETE /api/employees/:empID removes no Employee row and changes
\* nothing but the working_status of the employee it names, to 'Inactive'; when it is
\* answered 200 that employee is in the result of GET /api/employees/:hotelID for no
\* hotel; and the result of that GET for a hotel holds only employees of the hotel with
\* working_status 'Working', a Role other than 'manager' and a FirstName other than
\* 'System'.
C14_SoftDelete ==
    [][\A p \in Reqs :
         req[p].op = "delete-employee" /\ StepOf(p)
         => /\ DOMAIN Employee' = DOMAIN Employee
            /\ \A e \in DOMAIN Employee :
                 Employee'[e] # Employee[e]
                 => /\ e = req[p].id
                    /\ Employee'[e] = [Employee[e] EXCEPT !.working_status = "Inactive"]
            /\ req'[p].resp = 200
               => /\ Employee'[req[p].id].working_status = "Inactive"
                  /\ \A h \in InitHotel : req[p].id \notin getEmployees(Employee', h)
            /\ \A h \in InitHotel : \A e \in getEmployees(Employee', h) :
                 /\ EmployeeHotel(e)' = h
                 /\ Employee'[e].working_status = "Working"
                 /\ Employee'[e].Role # "manager"
                 /\ Employee'[e].FirstName # "System"]_vars

\* A delete was answered 200: its employee, listed for hotel 1 at the start, has its
\* row, is 'Inactive' and is listed for no hotel, while another employee is listed.
C14_Witness ==
    \E p \in Reqs :
        /\ req[p].op = "delete-employee" /\ req[p].resp = 200
        /\ req[p].id \in getEmployees(InitEmployee, 1)
        /\ Employee[req[p].id].working_status = "Inactive"
        /\ \A h \in InitHotel : req[p].id \notin getEmployees(Employee, h)
        /\ \E h \in InitHotel : getEmployees(Employee, h) # {}

----------------------------------------------------------------------------
(* C15 *)

\* Order t is for an item whose Inventory row the UPDATE of router `router`, for the
\* manager of hotel `user`, affects no row of.
CannotUpdate(t, router, user) ==
    LET row == InventoryTransactions[t]
        i == row.InventoryID
    IN /\ IsOrder(t)
       /\ router = "managerInventory" => row.HotelID = user
       /\ ~ /\ i \in DOMAIN Inventory
            /\ router = "managerInventory" => Inventory[i].HotelID = user

C15_InventoryRouter ==
    \A p \in Reqs :
        LET r == req[p]
        IN r.router = "inventory" /\ r.op = "receive-order" /\ Finished(r) /\ r.valid
           /\ r.id \in DOMAIN InventoryTransactions /\ CannotUpdate(r.id, r.router, r.user)
           => /\ InventoryTransactions[r.id].Status = "Pending"
              /\ received[r.id] = 0
              /\ r.resp = 404
              /\ r.conn = RolledBack

----------------------------------------------------------------------------
(* C16 *)

\* What a step of the order-item request p must do and leave alone.
OrderItemFrame(p) ==
    LET r == req[p]
        r2 == req'[p]
        h == IF r2.user # 0 THEN r2.user ELSE r.b.hotelID
        itemInHotel == r2.id \in DOMAIN Inventory /\ Inventory[r2.id].HotelID = h
        new == DOMAIN InventoryTransactions' \ DOMAIN InventoryTransactions
    IN /\ DOMAIN Inventory' = DOMAIN Inventory
       /\ \A i \in DOMAIN Inventory : Inventory'[i].Quantity = Inventory[i].Quantity
       /\ \A t \in DOMAIN InventoryTransactions :
            /\ t \in DOMAIN InventoryTransactions'
            /\ InventoryTransactions'[t] = InventoryTransactions[t]
       /\ ~Finished(r2) => new = {}
       /\ Finished(r2) /\ r2.valid
          => IF itemInHotel
             THEN /\ r2.resp = 200
                  /\ Cardinality(new) = 1
                  /\ \A t \in new :
                       /\ InventoryTransactions'[t].TransactionType = "Order"
                       /\ InventoryTransactions'[t].Status = "Pending"
                       /\ InventoryTransactions'[t].InventoryID = r2.id
                       /\ InventoryTransactions'[t].HotelID = h
             ELSE r2.resp = 404 /\ new = {}

\* C16: an order-item request whose item exists in its hotel creates exactly one
\* InventoryTransactions row, with TransactionType 'Order' and Status 'Pending', and is
\* answered 200; one whose item does not exist in the hotel is answered 404 and inserts
\* no row; no step of either changes the Quantity of an Inventory row or another
\* InventoryTransactions row.
C16_OrderItemFrame ==
    [][\A p \in Reqs : req'[p].op = "order-item" /\ StepOf(p) => OrderItemFrame(p)]_vars

\* C16 on /api/inventory.
C16_InventoryRouter ==
    [][\A p \in Reqs :
         req'[p].router = "inventory" /\ req'[p].op = "order-item" /\ StepOf(p)
         => OrderItemFrame(p)]_vars

====
